---- MODULE Spec2Model ----
(***************************************************************************)
(* BillBear (src/app.py): the room store and the request handlers that     *)
(* create a room, admit participants, record selections and force          *)
(* completion.  The store is the Redis branch of save_room/get_room: a     *)
(* room is kept as a JSON document in which submitted_users is a list, and *)
(* every handler reads the whole document and writes the whole document.   *)
(* Redis is taken to answer every command, so the except branches of the   *)
(* store helpers are not taken.  Display-only fields (room_name,           *)
(* bill_image) are left out.  Further down: calculate_bill_split as the    *)
(* results page computes it (SpecCompute), and POST /create with the calls *)
(* of the receipt extractor it makes (SpecCreate).                         *)
(***************************************************************************)
EXTENDS Integers, Sequences, FiniteSets, TLC

VARIABLES rooms,   \* Redis: room code -> stored JSON document, for the codes that exist
          last,    \* the request that was served last: its inputs and its outcome
          reqs,    \* interleaved serving: the requests begun so far, and those that
                   \* have read their room and not yet written it back
          upload   \* the POST /create being served step by step: where it is in
                   \* process_uploaded_file and what the extractor has been asked

vars == <<rooms, last, reqs, upload>>

(***************************************************************************)
(* Bounds and input alphabets.                                             *)
(***************************************************************************)
MaxPeople == 2
MaxRequests == 3

Codes == {"K7Q2ZD"}
CodeInputs == {"K7Q2ZD", "k7q2zd"}
HostNames == {"Ann", "Bob"}
Names == {"Ann", "Bob", "bob"}
RawNames == {"Ann", " Bob", "bob", ""}
SelectionInputs == {<<>>, <<"Tea", "Coffee">>}

OcrResults ==
  { [items |-> << [name |-> "Tea", price |-> "20"], [name |-> "Coffee", price |-> "30"] >>,
     subtotal |-> "50", serviceCharge |-> "N/A", discount |-> "N/A",
     cgst |-> "N/A", sgst |-> "N/A", total |-> "50"] }

EditForms ==
  { [item_name |-> <<" Tea">>, item_price |-> <<"25">>,
     subtotal |-> "25", serviceCharge |-> "", discount |-> "5",
     cgst |-> "", sgst |-> "", total |-> "20"] }

(***************************************************************************)
(* String conversions, on the strings the inputs are drawn from.           *)
(***************************************************************************)
strip(s) ==
  CASE s = " Bob" -> "Bob"
    [] s = " Tea" -> "Tea"
    [] OTHER -> s

upper(s) ==
  CASE s = "k7q2zd" -> "K7Q2ZD"
    [] OTHER -> s

(***************************************************************************)
(* Sequences and dictionaries.                                             *)
(***************************************************************************)
Range(s) == {s[i] : i \in DOMAIN s}

Orders(S) == {s \in [1..Cardinality(S) -> S] : Range(s) = S}

Put(d, k, v) == [x \in DOMAIN d \cup {k} |-> IF x = k THEN v ELSE d[x]]

(***************************************************************************)
(* The room store.                                                         *)
(***************************************************************************)
\* A serialisation that keeps only the first of the submitted users.
json_dumps_first_only(room_data, order) ==
  [room_data EXCEPT !.submitted_users = IF order = <<>> THEN <<>> ELSE <<order[1]>>]

json_dumps(room_data, order) == [room_data EXCEPT !.submitted_users = order]

json_loads(doc) == [doc EXCEPT !.submitted_users = Range(doc.submitted_users)]

room_exists(store, room_code) == room_code \in DOMAIN store

\* get_room answers None exactly for the codes that have no document.
has_room(store, room_code) == room_code \in DOMAIN store

get_room(store, room_code) == json_loads(store[room_code])

save_room(store, room_code, room_data, order) == Put(store, room_code, json_dumps(room_data, order))

generate_room_code == Codes

(***************************************************************************)
(* What each handler does to the room it has read.  A handler's outcome is *)
(* result (what the caller is told), save (whether save_room is called)    *)
(* and room (the in-memory room at that point).                            *)
(***************************************************************************)
EmptyDict == [k \in {} |-> <<>>]

Outcome(result, save, room) == [result |-> result, save |-> save, room |-> room]

create_room_data(host_name, num_people, ocr_result) ==
  [host_name |-> host_name,
   num_people |-> num_people,
   items |-> IF "items" \in DOMAIN ocr_result THEN ocr_result.items ELSE <<>>,
   ocr_data |-> ocr_result,
   users |-> <<host_name>>,
   selections |-> EmptyDict,
   submitted_users |-> {}]

safe_get_form_value(value) == IF strip(value) # "" THEN strip(value) ELSE "N/A"

zip_items(names, prices) ==
  [i \in 1..(IF Len(names) <= Len(prices) THEN Len(names) ELSE Len(prices)) |->
     [name |-> strip(names[i]), price |-> prices[i]]]

\* edit_items that also throws away what users have selected.
edit_items_post_reset_selections(room, form) ==
  Outcome("Updated", TRUE,
    [room EXCEPT !.ocr_data = [@ EXCEPT !.subtotal = safe_get_form_value(form.subtotal),
                                        !.serviceCharge = safe_get_form_value(form.serviceCharge),
                                        !.discount = safe_get_form_value(form.discount),
                                        !.cgst = safe_get_form_value(form.cgst),
                                        !.sgst = safe_get_form_value(form.sgst),
                                        !.total = safe_get_form_value(form.total)],
                 !.items = zip_items(form.item_name, form.item_price),
                 !.selections = EmptyDict,
                 !.submitted_users = {}])

edit_items_post(room, form) ==
  Outcome("Updated", TRUE,
    [room EXCEPT !.ocr_data = [@ EXCEPT !.subtotal = safe_get_form_value(form.subtotal),
                                        !.serviceCharge = safe_get_form_value(form.serviceCharge),
                                        !.discount = safe_get_form_value(form.discount),
                                        !.cgst = safe_get_form_value(form.cgst),
                                        !.sgst = safe_get_form_value(form.sgst),
                                        !.total = safe_get_form_value(form.total)],
                 !.items = zip_items(form.item_name, form.item_price)])

room_summary_view(room) ==
  Outcome("Shown", TRUE,
    IF room.host_name \notin Range(room.users)
    THEN [room EXCEPT !.users = <<room.host_name>> \o @]
    ELSE room)

\* join that puts the newcomer at the head of the users list.
join_post_prepend(room, user_name) ==
  IF user_name \in Range(room.users) THEN Outcome("AlreadyJoined", FALSE, room)
  ELSE IF Len(room.users) >= room.num_people THEN Outcome("RoomFull", FALSE, room)
  ELSE Outcome("Joined", TRUE, [room EXCEPT !.users = <<user_name>> \o @])

\* join with the capacity test off by one (> for >=).
join_post_off_by_one(room, user_name) ==
  IF user_name \in Range(room.users) THEN Outcome("AlreadyJoined", FALSE, room)
  ELSE IF Len(room.users) > room.num_people THEN Outcome("RoomFull", FALSE, room)
  ELSE Outcome("Joined", TRUE, [room EXCEPT !.users = Append(@, user_name)])

join_post(room, user_name) ==
  IF user_name \in Range(room.users) THEN Outcome("AlreadyJoined", FALSE, room)
  ELSE IF Len(room.users) >= room.num_people THEN Outcome("RoomFull", FALSE, room)
  ELSE Outcome("Joined", TRUE, [room EXCEPT !.users = Append(@, user_name)])

\* join_room without the test for a name that has already joined.
join_room_post_no_dup_test(room, user_name) ==
  IF Len(room.users) >= room.num_people THEN Outcome("RoomFull", FALSE, room)
  ELSE Outcome("Joined", TRUE, [room EXCEPT !.users = Append(@, user_name)])

join_room_post(room, user_name) ==
  IF user_name \in Range(room.users) THEN Outcome("AlreadyJoined", FALSE, room)
  ELSE IF Len(room.users) >= room.num_people THEN Outcome("RoomFull", FALSE, room)
  ELSE Outcome("Joined", TRUE, [room EXCEPT !.users = Append(@, user_name)])

\* select_items without the early return for a user who has submitted.
select_items_post_overwrite(room, user_name, selected_items) ==
  Outcome("Submitted", TRUE,
    [room EXCEPT !.selections = Put(@, user_name, selected_items),
                 !.submitted_users = @ \cup {user_name}])

select_items_post(room, user_name, selected_items) ==
  IF user_name \in room.submitted_users THEN Outcome("AlreadySubmitted", FALSE, room)
  ELSE Outcome("Submitted", TRUE,
         [room EXCEPT !.selections = Put(@, user_name, selected_items),
                      !.submitted_users = @ \cup {user_name}])

\* The loop of force_complete emptying the selection of every user.
RECURSIVE force_complete_loop_all(_, _, _)
force_complete_loop_all(users, submitted_users, selections) ==
  IF users = <<>> THEN [submitted_users |-> submitted_users, selections |-> selections]
  ELSE force_complete_loop_all(Tail(users), submitted_users \cup {Head(users)},
                               Put(selections, Head(users), <<>>))

\* The loop of force_complete leaving after the first user it marks.
RECURSIVE force_complete_loop_first(_, _, _)
force_complete_loop_first(users, submitted_users, selections) ==
  IF users = <<>> THEN [submitted_users |-> submitted_users, selections |-> selections]
  ELSE IF Head(users) \notin submitted_users
       THEN [submitted_users |-> submitted_users \cup {Head(users)},
             selections |-> Put(selections, Head(users), <<>>)]
       ELSE force_complete_loop_first(Tail(users), submitted_users, selections)

RECURSIVE force_complete_loop(_, _, _)
force_complete_loop(users, submitted_users, selections) ==
  IF users = <<>> THEN [submitted_users |-> submitted_users, selections |-> selections]
  ELSE IF Head(users) \notin submitted_users
       THEN force_complete_loop(Tail(users), submitted_users \cup {Head(users)},
                                Put(selections, Head(users), <<>>))
       ELSE force_complete_loop(Tail(users), submitted_users, selections)

\* force_complete without the host test.
force_complete_post_anyone(room, user_name) ==
  LET marked == force_complete_loop(room.users, room.submitted_users, room.selections)
  IN  Outcome("Completed", TRUE,
        [room EXCEPT !.selections = marked.selections,
                     !.submitted_users = marked.submitted_users])

force_complete_post(room, user_name) ==
  IF user_name # room.host_name THEN Outcome("Forbidden", FALSE, room)
  ELSE LET marked == force_complete_loop(room.users, room.submitted_users, room.selections)
       IN  Outcome("Completed", TRUE,
             [room EXCEPT !.selections = marked.selections,
                          !.submitted_users = marked.submitted_users])

\* room_status with enough_users_joined computed by > for >=.
room_status_json_strict(room) ==
  LET users == room.users
      submitted_users == room.submitted_users
      expected_people == room.num_people
      enough_users_joined == Len(users) > expected_people
      all_submitted == Cardinality(submitted_users) = Len(users) /\ Len(users) > 0
  IN  [all_submitted |-> all_submitted,
       enough_users_joined |-> enough_users_joined,
       ready_to_proceed |-> enough_users_joined /\ all_submitted,
       total_users |-> Len(users),
       expected_people |-> expected_people,
       submitted_count |-> Cardinality(submitted_users)]

room_status_json(room) ==
  LET users == room.users
      submitted_users == room.submitted_users
      expected_people == room.num_people
      enough_users_joined == Len(users) >= expected_people
      all_submitted == Cardinality(submitted_users) = Len(users) /\ Len(users) > 0
  IN  [all_submitted |-> all_submitted,
       enough_users_joined |-> enough_users_joined,
       ready_to_proceed |-> enough_users_joined /\ all_submitted,
       total_users |-> Len(users),
       expected_people |-> expected_people,
       submitted_count |-> Cardinality(submitted_users)]

(***************************************************************************)
(* Request handlers, each served from its first line to its last.          *)
(***************************************************************************)
NoStatus == [total_users |-> -1]

NoRequests == [begun |-> 0, reading |-> {}, written |-> {}]

None == <<>>

NoUpload == [pc |-> "idle", VERCEL_ENV |-> FALSE, host_name |-> "", num_people |-> 0,
             calls |-> 0, ocr_result |-> None]

Served(op, room_code, user_name, result, status) ==
  [op |-> op, room_code |-> room_code, user_name |-> user_name,
   result |-> result, status |-> status]

\* The tail of a handler that has its outcome: call save_room when the outcome
\* asks for it, and answer.
Finish(op, room_code, user_name, outcome) ==
  /\ last' = Served(op, room_code, user_name, outcome.result, NoStatus)
  /\ IF outcome.save
     THEN \E order \in Orders(outcome.room.submitted_users) :
            rooms' = save_room(rooms, room_code, outcome.room, order)
     ELSE rooms' = rooms

Refuse(op, room_code, user_name, result) ==
  /\ rooms' = rooms
  /\ last' = Served(op, room_code, user_name, result, NoStatus)

create_room(host_name, num_people, ocr_result) ==
  /\ \E room_code \in generate_room_code :
       Finish("create_room", room_code, host_name,
              Outcome("Created", TRUE, create_room_data(host_name, num_people, ocr_result)))
  /\ UNCHANGED <<reqs, upload>>

edit_items(room_code, form) ==
  /\ IF ~has_room(rooms, room_code)
     THEN Refuse("edit_items", room_code, "", "NotFound")
     ELSE Finish("edit_items", room_code, "", edit_items_post(get_room(rooms, room_code), form))
  /\ UNCHANGED <<reqs, upload>>

room_summary(room_code) ==
  /\ IF ~has_room(rooms, room_code)
     THEN Refuse("room_summary", room_code, "", "NotFound")
     ELSE Finish("room_summary", room_code, "", room_summary_view(get_room(rooms, room_code)))
  /\ UNCHANGED <<reqs, upload>>

join(raw_name, raw_code) ==
  /\ LET user_name == strip(raw_name)
         room_code == upper(strip(raw_code))
     IN  IF user_name = ""
         THEN Refuse("join", room_code, user_name, "NoName")
         ELSE IF ~room_exists(rooms, room_code) \/ ~has_room(rooms, room_code)
         THEN Refuse("join", room_code, user_name, "NotFound")
         ELSE Finish("join", room_code, user_name,
                     join_post(get_room(rooms, room_code), user_name))
  /\ UNCHANGED <<reqs, upload>>

join_room(raw_name, raw_code) ==
  /\ LET user_name == strip(raw_name)
         room_code == upper(raw_code)
     IN  IF ~has_room(rooms, room_code)
         THEN Refuse("join_room", room_code, user_name, "NotFound")
         ELSE IF user_name = ""
         THEN Refuse("join_room", room_code, user_name, "NoName")
         ELSE Finish("join_room", room_code, user_name,
                     join_room_post(get_room(rooms, room_code), user_name))
  /\ UNCHANGED <<reqs, upload>>

select_items(room_code, user_name, selected_items) ==
  /\ IF ~has_room(rooms, room_code)
     THEN Refuse("select_items", room_code, user_name, "NotFound")
     ELSE Finish("select_items", room_code, user_name,
                 select_items_post(get_room(rooms, room_code), user_name, selected_items))
  /\ UNCHANGED <<reqs, upload>>

room_status(room_code) ==
  /\ IF ~has_room(rooms, room_code)
     THEN Refuse("room_status", room_code, "", "NotFound")
     ELSE /\ rooms' = rooms
          /\ last' = Served("room_status", room_code, "", "Status",
                            room_status_json(get_room(rooms, room_code)))
  /\ UNCHANGED <<reqs, upload>>

force_complete(room_code, user_name) ==
  /\ IF ~has_room(rooms, room_code)
     THEN Refuse("force_complete", room_code, user_name, "NotFound")
     ELSE Finish("force_complete", room_code, user_name,
                 force_complete_post(get_room(rooms, room_code), user_name))
  /\ UNCHANGED <<reqs, upload>>

(***************************************************************************)
(* Spec: requests are served one at a time.                                *)
(***************************************************************************)
Init ==
  /\ rooms = EmptyDict
  /\ reqs = NoRequests
  /\ upload = NoUpload
  /\ last = Served("none", "", "", "none", NoStatus)

Next ==
  \/ \E h \in HostNames, n \in 0..MaxPeople, o \in OcrResults : create_room(h, n, o)
  \/ \E c \in Codes, f \in EditForms : edit_items(c, f)
  \/ \E c \in Codes : room_summary(c)
  \/ \E u \in RawNames, c \in CodeInputs : join(u, c)
  \/ \E u \in RawNames, c \in CodeInputs : join_room(u, c)
  \/ \E c \in Codes, u \in Names, s \in SelectionInputs : select_items(c, u, s)
  \/ \E c \in Codes : room_status(c)
  \/ \E c \in Codes, u \in Names : force_complete(c, u)

Spec == Init /\ [][Next]_vars

(***************************************************************************)
(* SpecRace: the same handlers with other requests served between a        *)
(* handler's get_room and its save_room.  What a handler does in between   *)
(* is done on its own copy of the room, so a handler is two steps: the     *)
(* read, which fixes its outcome, and the write of the whole document.  A  *)
(* handler that returns without calling save_room is served in its read    *)
(* step.  A run begins at most MaxRequests requests on a room that         *)
(* create_room has just stored.  reqs.reading is a set: two requests with  *)
(* the same inputs that read the same document write the same document.    *)
(* reqs.written remembers the requests that were answered after their      *)
(* save_room, and what they were answered.                                 *)
(***************************************************************************)
Written(op, user_name, result) == [op |-> op, user_name |-> user_name, result |-> result]

Reading(op, room_code, user_name, outcome) ==
  [op |-> op, room_code |-> room_code, user_name |-> user_name, outcome |-> outcome]

Begin(op, room_code, user_name, outcome) ==
  /\ reqs.begun < MaxRequests
  /\ IF outcome.save
     THEN /\ upload' = upload
          /\ reqs' = [reqs EXCEPT !.begun = @ + 1,
                                   !.reading = @ \cup {Reading(op, room_code, user_name, outcome)}]
          /\ UNCHANGED <<rooms, last>>
     ELSE /\ upload' = upload
          /\ reqs' = [reqs EXCEPT !.begun = @ + 1]
          /\ Refuse(op, room_code, user_name, outcome.result)

edit_items_read(room_code, form) ==
  /\ has_room(rooms, room_code)
  /\ Begin("edit_items", room_code, "", edit_items_post(get_room(rooms, room_code), form))

room_summary_read(room_code) ==
  /\ has_room(rooms, room_code)
  /\ Begin("room_summary", room_code, "", room_summary_view(get_room(rooms, room_code)))

join_read(raw_name, raw_code) ==
  /\ strip(raw_name) # ""
  /\ room_exists(rooms, upper(strip(raw_code)))
  /\ has_room(rooms, upper(strip(raw_code)))
  /\ Begin("join", upper(strip(raw_code)), strip(raw_name),
           join_post(get_room(rooms, upper(strip(raw_code))), strip(raw_name)))

join_room_read(raw_name, raw_code) ==
  /\ has_room(rooms, upper(raw_code))
  /\ strip(raw_name) # ""
  /\ Begin("join_room", upper(raw_code), strip(raw_name),
           join_room_post(get_room(rooms, upper(raw_code)), strip(raw_name)))

select_items_read(room_code, user_name, selected_items) ==
  /\ has_room(rooms, room_code)
  /\ Begin("select_items", room_code, user_name,
           select_items_post(get_room(rooms, room_code), user_name, selected_items))

force_complete_read(room_code, user_name) ==
  /\ has_room(rooms, room_code)
  /\ Begin("force_complete", room_code, user_name,
           force_complete_post(get_room(rooms, room_code), user_name))

\* A write that keeps the selections and submitted users the store has gained
\* since the request read the room.
save_room_write_merging(req) ==
  /\ upload' = upload
  /\ reqs' = [reqs EXCEPT !.reading = @ \ {req},
                           !.written = @ \cup {Written(req.op, req.user_name, req.outcome.result)}]
  /\ last' = Served(req.op, req.room_code, req.user_name, req.outcome.result, NoStatus)
  /\ LET stored == get_room(rooms, req.room_code)
         merged == [req.outcome.room EXCEPT
                      !.selections = [user \in DOMAIN @ \cup DOMAIN stored.selections |->
                                        IF user \in DOMAIN @ THEN @[user]
                                        ELSE stored.selections[user]],
                      !.submitted_users = @ \cup stored.submitted_users]
     IN  \E order \in Orders(merged.submitted_users) :
           rooms' = save_room(rooms, req.room_code, merged, order)

save_room_write(req) ==
  /\ upload' = upload
  /\ reqs' = [reqs EXCEPT !.reading = @ \ {req},
                           !.written = @ \cup {Written(req.op, req.user_name, req.outcome.result)}]
  /\ last' = Served(req.op, req.room_code, req.user_name, req.outcome.result, NoStatus)
  /\ \E order \in Orders(req.outcome.room.submitted_users) :
       rooms' = save_room(rooms, req.room_code, req.outcome.room, order)

InitRace ==
  /\ \E room_code \in generate_room_code, h \in HostNames, n \in 1..MaxPeople, o \in OcrResults :
       rooms = save_room(EmptyDict, room_code, create_room_data(h, n, o), <<>>)
  /\ reqs = NoRequests
  /\ upload = NoUpload
  /\ last = Served("none", "", "", "none", NoStatus)

NextRace ==
  \/ \E c \in Codes, f \in EditForms : edit_items_read(c, f)
  \/ \E c \in Codes : room_summary_read(c)
  \/ \E u \in RawNames, c \in CodeInputs : join_read(u, c)
  \/ \E u \in RawNames, c \in CodeInputs : join_room_read(u, c)
  \/ \E c \in Codes, u \in Names, s \in SelectionInputs : select_items_read(c, u, s)
  \/ \E c \in Codes, u \in Names : force_complete_read(c, u)
  \/ \E req \in reqs.reading : save_room_write(req)

SpecRace == InitRace /\ [][NextRace]_vars

(***************************************************************************)
(* Amounts.  A Python float is modelled by the exact rational number of    *)
(* rupees it stands for, kept in lowest terms so that equal amounts are    *)
(* equal values.  round() to a number of decimals is exact except on a     *)
(* tie, which binary floating point resolves either way: the direction is  *)
(* an input of the computation.                                            *)
(***************************************************************************)
RECURSIVE gcd(_, _)
gcd(a, b) == IF b = 0 THEN a ELSE gcd(b, a % b)

abs(a) == IF a < 0 THEN -a ELSE a

Q(n, d) ==
  LET g == gcd(abs(n), d)
  IN  [n |-> n \div g, d |-> d \div g]

Zero == Q(0, 1)

add(x, y) == Q(x.n * y.d + y.n * x.d, x.d * y.d)

sub(x, y) == Q(x.n * y.d - y.n * x.d, x.d * y.d)

mul(x, y) == Q(x.n * y.n, x.d * y.d)

\* x / y for y > 0
div(x, y) == Q(x.n * y.d, x.d * y.n)

less(x, y) == x.n * y.d < y.n * x.d

Ties == {"down", "up"}

RECURSIVE pow10(_)
pow10(k) == IF k = 0 THEN 1 ELSE 10 * pow10(k - 1)

round(x, ndigits, tie) ==
  LET scaled == Q(x.n * pow10(ndigits), x.d)
      floor == scaled.n \div scaled.d
      twice == 2 * (scaled.n - floor * scaled.d)
      nearest == IF twice < scaled.d THEN floor
                 ELSE IF twice > scaled.d THEN floor + 1
                 ELSE IF tie = "up" THEN floor + 1 ELSE floor
  IN  Q(nearest, pow10(ndigits))

\* float(s): the number a string denotes, or ValueError.
Float(value) == [ValueError |-> FALSE, value |-> value]

float(s) ==
  CASE s \in {"20", "20.00"} -> Float(Q(20, 1))
    [] s \in {"30", "30.00"} -> Float(Q(30, 1))
    [] s = "25" -> Float(Q(25, 1))
    [] s = "50" -> Float(Q(50, 1))
    [] s = "100.00" -> Float(Q(100, 1))
    [] s \in {"10", "10.00"} -> Float(Q(10, 1))
    [] s \in {"5", "5.00"} -> Float(Q(5, 1))
    [] s = "2.50" -> Float(Q(5, 2))
    [] s = "0.01" -> Float(Q(1, 100))
    [] s = "1250.00" -> Float(Q(1250, 1))
    [] OTHER -> [ValueError |-> TRUE, value |-> Zero]

\* s.replace('₹', '').replace(',', '')
clean(s) ==
  CASE s = "₹20.00" -> "20.00"
    [] s = "₹30.00" -> "30.00"
    [] s = "₹100.00" -> "100.00"
    [] s = "₹10.00" -> "10.00"
    [] s = "₹5.00" -> "5.00"
    [] s = "₹2.50" -> "2.50"
    [] s = "₹0.01" -> "0.01"
    [] s = "₹1,250.00" -> "1250.00"
    [] OTHER -> s

parse_price(price_str) ==
  LET price_clean == clean(price_str)
  IN  IF float(price_clean).ValueError THEN Zero ELSE float(price_clean).value

parse_amount(amount_str) ==
  IF amount_str = "" \/ amount_str = "N/A" THEN Zero
  ELSE LET clean_amount == clean(amount_str)
       IN  IF float(clean_amount).ValueError THEN Zero ELSE float(clean_amount).value

(***************************************************************************)
(* calculate_bill_split, local by local.                                   *)
(***************************************************************************)
\* The dict built by `for item in items: item_prices[item['name']] = ...`:
\* a later entry of the list replaces an earlier one of the same name.
RECURSIVE item_prices_loop(_, _, _)
item_prices_loop(items, i, item_prices) ==
  IF i > Len(items) THEN item_prices
  ELSE item_prices_loop(items, i + 1,
         Put(item_prices, items[i].name, parse_price(items[i].price)))

item_prices_of(items) == item_prices_loop(items, 1, EmptyDict)

item_selection_count_of(item_prices, selections) ==
  [item_name \in DOMAIN item_prices |->
     Cardinality({user \in DOMAIN selections : item_name \in Range(selections[user])})]

\* user_share with a name that is not on the bill priced at one rupee.
user_share_dangling_priced(item_prices, item_selection_count, item_name) ==
  LET item_price == IF item_name \in DOMAIN item_prices
                    THEN item_prices[item_name] ELSE Q(1, 1)
      selection_count == IF item_name \in DOMAIN item_selection_count
                         THEN item_selection_count[item_name] ELSE 1
  IN  IF selection_count > 0 THEN div(item_price, Q(selection_count, 1)) ELSE Zero

\* What one entry of a user's selection adds to the user's total.
user_share(item_prices, item_selection_count, item_name) ==
  LET item_price == IF item_name \in DOMAIN item_prices
                    THEN item_prices[item_name] ELSE Zero
      selection_count == IF item_name \in DOMAIN item_selection_count
                         THEN item_selection_count[item_name] ELSE 1
  IN  IF selection_count > 0 THEN div(item_price, Q(selection_count, 1)) ELSE Zero

\* `for item_name in selected_items: user_item_total += user_share`
RECURSIVE user_item_total(_, _, _)
user_item_total(item_prices, item_selection_count, selected_items) ==
  IF selected_items = <<>> THEN Zero
  ELSE add(user_share(item_prices, item_selection_count, Head(selected_items)),
           user_item_total(item_prices, item_selection_count, Tail(selected_items)))

user_totals_of(item_prices, item_selection_count, selections) ==
  [user \in DOMAIN selections |->
     user_item_total(item_prices, item_selection_count, selections[user])]

\* sum(d.values())
RECURSIVE sum_values(_)
sum_values(d) ==
  IF DOMAIN d = {} THEN Zero
  ELSE LET k == CHOOSE k \in DOMAIN d : TRUE
       IN  add(d[k], sum_values([j \in DOMAIN d \ {k} |-> d[j]]))

\* A charge billed in full to every user.
per_user_undivided(amount, num_users) == amount

per_user(amount, num_users) ==
  IF num_users > 0 THEN div(amount, Q(num_users, 1)) ELSE Zero

\* The discount read as a percentage of the bill.
discount_percentage_of_hundred(discount, subtotal) ==
  IF less(Zero, subtotal) THEN div(discount, Q(100, 1)) ELSE Zero

discount_percentage_of(discount, subtotal) ==
  IF less(Zero, subtotal) THEN div(discount, subtotal) ELSE Zero

\* final_amount with the discount added.
final_amount_discount_added(item_total, service_charge_per_user, cgst_per_user, sgst_per_user, user_discount) ==
  add(add(add(add(item_total, service_charge_per_user), cgst_per_user),
          sgst_per_user), user_discount)

final_amount_of(item_total, service_charge_per_user, cgst_per_user, sgst_per_user, user_discount) ==
  sub(add(add(add(item_total, service_charge_per_user), cgst_per_user),
          sgst_per_user), user_discount)

\* The locals of calculate_bill_split after its loops.
locals(items, selections, ocr_data) ==
  LET item_prices == item_prices_of(items)
      service_charge == parse_amount(ocr_data.serviceCharge)
      discount == parse_amount(ocr_data.discount)
      cgst == parse_amount(ocr_data.cgst)
      sgst == parse_amount(ocr_data.sgst)
      item_selection_count == item_selection_count_of(item_prices, selections)
      user_totals == user_totals_of(item_prices, item_selection_count, selections)
      subtotal == sum_values(item_prices)
      num_users == Cardinality(DOMAIN selections)
      cgst_per_user == per_user(cgst, num_users)
      sgst_per_user == per_user(sgst, num_users)
      service_charge_per_user == per_user(service_charge, num_users)
      discount_percentage == discount_percentage_of(discount, subtotal)
      user_discount == [user \in DOMAIN selections |->
                          mul(user_totals[user], discount_percentage)]
      final_amount == [user \in DOMAIN selections |->
                         final_amount_of(user_totals[user], service_charge_per_user,
                                         cgst_per_user, sgst_per_user, user_discount[user])]
  IN  [item_prices |-> item_prices,
       service_charge |-> service_charge,
       discount |-> discount,
       cgst |-> cgst,
       sgst |-> sgst,
       item_selection_count |-> item_selection_count,
       user_totals |-> user_totals,
       subtotal |-> subtotal,
       num_users |-> num_users,
       cgst_per_user |-> cgst_per_user,
       sgst_per_user |-> sgst_per_user,
       service_charge_per_user |-> service_charge_per_user,
       discount_percentage |-> discount_percentage,
       user_discount |-> user_discount,
       final_amount |-> final_amount,
       grand_total |-> sum_values(final_amount)]

\* The dictionary calculate_bill_split returns.
bill_split(items, selections, ocr_data, tie) ==
  LET l == locals(items, selections, ocr_data)
  IN  [user_breakdown |->
         [user \in DOMAIN selections |->
            [selected_items |-> selections[user],
             item_total |-> round(l.user_totals[user], 2, tie),
             percentage |-> IF less(Zero, l.subtotal)
                            THEN round(mul(div(l.user_totals[user], l.subtotal), Q(100, 1)), 1, tie)
                            ELSE Zero,
             service_charge |-> round(l.service_charge_per_user, 2, tie),
             discount |-> round(l.user_discount[user], 2, tie),
             cgst |-> round(l.cgst_per_user, 2, tie),
             sgst |-> round(l.sgst_per_user, 2, tie),
             final_amount |-> round(l.final_amount[user], 2, tie)]],
       totals |->
         [subtotal |-> round(sum_values(l.user_totals), 2, tie),
          service_charge |-> round(l.service_charge, 2, tie),
          discount |-> round(l.discount, 2, tie),
          cgst |-> round(l.cgst, 2, tie),
          sgst |-> round(l.sgst, 2, tie),
          grand_total |-> round(l.grand_total, 2, tie)],
       item_sharing |-> l.item_selection_count]

\* calculate_bill_split over everyone in users, selection or not.
calculate_bill_split_all_users(room, tie) ==
  bill_split(room.items,
             [user \in Range(room.users) \cup DOMAIN room.selections |->
                IF user \in DOMAIN room.selections THEN room.selections[user] ELSE <<>>],
             room.ocr_data, tie)

\* calculate_bill_split over the selections of submitted users only.
calculate_bill_split_submitted_only(room, tie) ==
  bill_split(room.items,
             [user \in DOMAIN room.selections \cap room.submitted_users |->
                room.selections[user]],
             room.ocr_data, tie)

calculate_bill_split(room, tie) ==
  bill_split(room.items, room.selections, room.ocr_data, tie)

(***************************************************************************)
(* SpecCompute: the results page of a room whose bill and selections are   *)
(* drawn from receipts with repeated item names, unparsable prices, absent *)
(* charges and no items, and from selections that repeat a name or name    *)
(* something that is not on the bill.                                      *)
(***************************************************************************)
Charges(subtotal, serviceCharge, discount, cgst, sgst, total) ==
  [subtotal |-> subtotal, serviceCharge |-> serviceCharge, discount |-> discount,
   cgst |-> cgst, sgst |-> sgst, total |-> total]

Item(name, price) == [name |-> name, price |-> price]

ComputeReceipts ==
  { [items |-> <<Item("Tea", "₹20.00"), Item("Coffee", "₹30.00")>>]
      @@ Charges("₹50.00", "₹10.00", "₹5.00", "₹2.50", "₹2.50", "₹60.00"),
    [items |-> <<Item("Tea", "20"), Item("Tea", "30"), Item("Naan", "abc")>>]
      @@ Charges("50", "N/A", "10", "N/A", "N/A", "40"),
    [items |-> <<Item("Tea", "₹100.00")>>]
      @@ Charges("₹100.00", "N/A", "₹10.00", "N/A", "N/A", "₹90.00"),
    [items |-> <<>>]
      @@ Charges("N/A", "₹10.00", "₹5.00", "N/A", "N/A", "N/A"),
    [items |-> <<Item("Coffee", "₹1,250.00")>>]
      @@ Charges("₹1,250.00", "₹0.01", "N/A", "N/A", "N/A", "₹1,250.01") }

ComputeSelections ==
  { <<>>, <<"Tea">>, <<"Tea", "Coffee">>, <<"Tea", "Tea">>, <<"Coffee", "Chai">> }

results_page(room_code, tie) ==
  /\ IF ~has_room(rooms, room_code)
     THEN Refuse("results_page", room_code, "", "NotFound")
     ELSE /\ rooms' = rooms
          /\ last' = Served("results_page", room_code, "", "Results",
                            calculate_bill_split(get_room(rooms, room_code), tie))
  /\ UNCHANGED <<reqs, upload>>

InitCompute ==
  /\ \E room_code \in generate_room_code, o \in ComputeReceipts :
       rooms = save_room(EmptyDict, room_code, create_room_data("Ann", MaxPeople, o), <<>>)
  /\ reqs = NoRequests
  /\ upload = NoUpload
  /\ last = Served("none", "", "", "none", NoStatus)

NextCompute ==
  \/ \E c \in Codes, u \in Names, s \in ComputeSelections : select_items(c, u, s)
  \/ \E c \in Codes, t \in Ties : results_page(c, t)

SpecCompute == InitCompute /\ [][NextCompute]_vars

(***************************************************************************)
(* SpecCreate: POST /create served step by step, a step being what         *)
(* process_uploaded_file does up to and including one call of the          *)
(* extractor (ocrBillMaker.getText), and then what create_room does with   *)
(* the answer.  getText either raises (requests.post or the reading of the *)
(* image fails) or returns: the parsed receipt, or a dict with the one key *)
(* "error" when the response cannot be parsed.  VERCEL_ENV is fixed when   *)
(* the process starts.  upload.calls counts the calls of getText made for  *)
(* the request being served.                                               *)
(***************************************************************************)
ErrorDict == [error |-> "Failed to parse response"]

Raises == [raises |-> TRUE, value |-> None]

Returns(value) == [raises |-> FALSE, value |-> value]

getText == {Raises, Returns(ErrorDict)} \cup {Returns(o) : o \in OcrResults}

\* One call of abc.getText made at a place of process_uploaded_file: when it
\* raises the request goes to `raised`, else it has its ocr_result.
call_getText(outcome, raised) ==
  upload' = [upload EXCEPT !.calls = @ + 1,
                           !.pc = IF outcome.raises THEN raised ELSE "room_data",
                           !.ocr_result = outcome.value]

create_room_post(host_name, num_people) ==
  /\ upload.pc = "idle"
  /\ upload' = [upload EXCEPT !.pc = IF upload.VERCEL_ENV THEN "in_memory" ELSE "upload_folder",
                              !.host_name = host_name,
                              !.num_people = num_people,
                              !.calls = 0,
                              !.ocr_result = None]
  /\ UNCHANGED <<rooms, last, reqs>>

\* try: file_stream = BytesIO(file.read()); return abc.getText(file_stream)
in_memory(read, outcome) ==
  /\ upload.pc = "in_memory"
  /\ IF read THEN call_getText(outcome, "tmp")
     ELSE upload' = [upload EXCEPT !.pc = "tmp"]
  /\ UNCHANGED <<rooms, last, reqs>>

\* except Exception: file.save(temp_filepath); result = abc.getText(temp_filepath)
tmp(saved, outcome) ==
  /\ upload.pc = "tmp"
  /\ IF saved THEN call_getText(outcome, "except")
     ELSE upload' = [upload EXCEPT !.pc = "except"]
  /\ UNCHANGED <<rooms, last, reqs>>

\* else: file.save(filepath); return abc.getText(filepath)
upload_folder(saved, outcome) ==
  /\ upload.pc = "upload_folder"
  /\ IF saved THEN call_getText(outcome, "except")
     ELSE upload' = [upload EXCEPT !.pc = "except"]
  /\ UNCHANGED <<rooms, last, reqs>>

\* create_room from `items = ocr_result.get("items", [])` to its return
create_room_save ==
  /\ upload.pc = "room_data"
  /\ \E room_code \in generate_room_code :
       Finish("create_room", room_code, upload.host_name,
              Outcome("Created", TRUE,
                      create_room_data(upload.host_name, upload.num_people, upload.ocr_result)))
  /\ upload' = [upload EXCEPT !.pc = "idle"]
  /\ UNCHANGED reqs

\* except Exception as e: return "Error processing uploaded file", 500
create_room_except ==
  /\ upload.pc = "except"
  /\ Refuse("create_room", "", upload.host_name, "Error")
  /\ upload' = [upload EXCEPT !.pc = "idle"]
  /\ UNCHANGED reqs

InitCreate ==
  /\ rooms = EmptyDict
  /\ reqs = NoRequests
  /\ last = Served("none", "", "", "none", NoStatus)
  /\ \E v \in BOOLEAN : upload = [NoUpload EXCEPT !.VERCEL_ENV = v]

NextCreate ==
  \/ \E h \in HostNames, n \in 0..MaxPeople : create_room_post(h, n)
  \/ \E read \in BOOLEAN, outcome \in getText : in_memory(read, outcome)
  \/ \E saved \in BOOLEAN, outcome \in getText : tmp(saved, outcome)
  \/ \E saved \in BOOLEAN, outcome \in getText : upload_folder(saved, outcome)
  \/ create_room_save
  \/ create_room_except

SpecCreate == InitCreate /\ [][NextCreate]_vars

(***************************************************************************)
(* Properties.  A step is recognised by the request it leaves in last'.    *)
(***************************************************************************)
NoDuplicates(s) == \A i, j \in DOMAIN s : s[i] = s[j] => i = j

JoinOps == {"join", "join_room"}

\* The room a request is about, before and after the step that serves it.
Before == get_room(rooms, last'.room_code)
After == get_room(rooms', last'.room_code)

\* C1: in a room created with num_people >= 1 the stored users list has no
\* duplicate name and is no longer than num_people, whatever requests were served.
C1_UsersUniqueWithinCapacity ==
  \A c \in DOMAIN rooms :
    rooms[c].num_people >= 1 =>
      /\ NoDuplicates(rooms[c].users)
      /\ Len(rooms[c].users) <= rooms[c].num_people

C1_Witness ==
  \E c \in DOMAIN rooms :
    /\ rooms[c].num_people = 2
    /\ Len(rooms[c].users) = 2
    /\ last.op \in JoinOps
    /\ last.room_code = c
    /\ last.result = "RoomFull"

\* C2: every key of selections and every member of submitted_users is a member
\* of users, in every reachable state.
C2_SelectionsAndSubmittedAreUsers ==
  \A c \in DOMAIN rooms :
    /\ Range(rooms[c].submitted_users) \subseteq Range(rooms[c].users)
    /\ DOMAIN rooms[c].selections \subseteq Range(rooms[c].users)

\* C3: a name that is in the stored room's submitted_users is still in it after
\* every step, whatever way the reads and writes of the handlers interleave.
C3_SubmittedNeverRemoved ==
  [][ \A c \in DOMAIN rooms :
        /\ c \in DOMAIN rooms'
        /\ Range(rooms[c].submitted_users) \subseteq Range(rooms'[c].submitted_users) ]_vars

\* C4: create_room stores the new room under a code that was not in the store,
\* so every room that existed before is still there with the same contents.
C4_CreateKeepsExistingRooms ==
  [][ (last'.op = "create_room" /\ last'.result = "Created") =>
        /\ last'.room_code \notin DOMAIN rooms
        /\ \A c \in DOMAIN rooms : c \in DOMAIN rooms' /\ rooms'[c] = rooms[c] ]_vars

\* C5: a join of an existing room by a name already in users is refused as
\* AlreadyJoined, by a new name when the room is at capacity as RoomFull, both
\* without a write; any other join appends the name to users and changes
\* nothing else of the room.
C5_JoinCases ==
  [][ (last'.op \in JoinOps /\ last'.room_code \in DOMAIN rooms /\ last'.user_name # "") =>
        IF last'.user_name \in Range(Before.users)
        THEN last'.result = "AlreadyJoined" /\ rooms' = rooms
        ELSE IF Len(Before.users) >= Before.num_people
        THEN last'.result = "RoomFull" /\ rooms' = rooms
        ELSE /\ last'.result = "Joined"
             /\ After.users = Append(Before.users, last'.user_name)
             /\ After = [Before EXCEPT !.users = After.users] ]_vars

C5_Witness ==
  \E c \in DOMAIN rooms :
    /\ last.op = "join"
    /\ last.room_code = c
    /\ last.result = "Joined"
    /\ last.user_name = "bob"
    /\ rooms[c].users = <<"Bob", "bob">>

\* C6: a selection sent by a user who is already in submitted_users is ignored:
\* the stored room, and so the user's recorded selection, stays as it was.
C6_ResubmissionIgnored ==
  [][ (/\ last'.op = "select_items"
       /\ last'.room_code \in DOMAIN rooms
       /\ last'.user_name \in Before.submitted_users) =>
        last'.result = "AlreadySubmitted" /\ rooms' = rooms ]_vars

C6_Witness ==
  \E c \in DOMAIN rooms :
    /\ last.op = "select_items"
    /\ last.room_code = c
    /\ last.result = "AlreadySubmitted"
    /\ last.user_name \in DOMAIN rooms[c].selections
    /\ rooms[c].selections[last.user_name] = <<"Tea", "Coffee">>

\* C7: force_complete asked by anyone but the host is refused as Forbidden and
\* leaves the stored room as it was.
C7_ForceCompleteHostOnly ==
  [][ (/\ last'.op = "force_complete"
       /\ last'.room_code \in DOMAIN rooms
       /\ last'.user_name # Before.host_name) =>
        last'.result = "Forbidden" /\ rooms' = rooms ]_vars

C7_Witness ==
  \E c \in DOMAIN rooms :
    /\ last.op = "force_complete"
    /\ last.room_code = c
    /\ last.result = "Forbidden"
    /\ last.user_name \in Range(rooms[c].users)
    /\ last.user_name \notin Range(rooms[c].submitted_users)

\* C8: a successful force_complete gives an empty selection to, and marks as
\* submitted, exactly the users who had not submitted; every other recorded
\* selection, and users, items and charges, stay as they were.
C8_ForceCompleteMarksStragglers ==
  [][ (last'.op = "force_complete" /\ last'.result = "Completed") =>
        LET stragglers == Range(Before.users) \ Before.submitted_users IN
        /\ After.submitted_users = Before.submitted_users \cup stragglers
        /\ DOMAIN After.selections = DOMAIN Before.selections \cup stragglers
        /\ \A u \in stragglers : After.selections[u] = <<>>
        /\ \A u \in DOMAIN Before.selections \ stragglers :
             After.selections[u] = Before.selections[u]
        /\ After.users = Before.users
        /\ After.items = Before.items
        /\ After.ocr_data = Before.ocr_data ]_vars

C8_Witness ==
  \E c \in DOMAIN rooms :
    /\ last.op = "force_complete"
    /\ last.room_code = c
    /\ last.result = "Completed"
    /\ Len(rooms[c].users) = 2
    /\ rooms[c].selections[rooms[c].users[1]] = <<"Tea", "Coffee">>
    /\ rooms[c].selections[rooms[c].users[2]] = <<>>

\* C9: force_complete is idempotent: in the room a successful force_complete
\* has left, a second one by the host changes neither selections nor
\* submitted_users.
C9_ForceCompleteIdempotent ==
  \A c \in DOMAIN rooms :
    (last.op = "force_complete" /\ last.result = "Completed" /\ last.room_code = c) =>
      LET once == get_room(rooms, c)
          twice == force_complete_post(once, once.host_name)
      IN  /\ twice.result = "Completed"
          /\ twice.room.selections = once.selections
          /\ twice.room.submitted_users = once.submitted_users

C9_Witness ==
  \E c \in DOMAIN rooms :
    /\ last.op = "force_complete"
    /\ last.room_code = c
    /\ last.result = "Completed"
    /\ Len(rooms[c].users) = 2
    /\ \A u \in Range(rooms[c].users) : rooms[c].selections[u] = <<>>

\* C10: for an existing room, room_status answers total_users = len(users),
\* submitted_count = the number of submitted users, enough_users_joined =
\* (total_users >= num_people), all_submitted = (submitted_count = total_users
\* and total_users > 0), ready_to_proceed = both; and it writes nothing.
C10_StatusFields ==
  [][ (last'.op = "room_status" /\ last'.room_code \in DOMAIN rooms) =>
        LET doc == rooms[last'.room_code]
            total == Len(doc.users)
            count == Cardinality(Range(doc.submitted_users))
            out == last'.status
        IN  /\ last'.result = "Status"
            /\ rooms' = rooms
            /\ out.total_users = total
            /\ out.submitted_count = count
            /\ out.enough_users_joined = (total >= doc.num_people)
            /\ out.all_submitted = (count = total /\ total > 0)
            /\ out.ready_to_proceed = (out.enough_users_joined /\ out.all_submitted) ]_vars

C10_Witness ==
  /\ last.op = "room_status"
  /\ last.result = "Status"
  /\ last.status.total_users = 2
  /\ last.status.submitted_count = 2
  /\ last.status.ready_to_proceed

\* C11: in every stored room, after any sequence of requests, host_name is a
\* member of users and is the first element of the list.
C11_HostFirst ==
  \A c \in DOMAIN rooms :
    LET doc == get_room(rooms, c)
    IN  /\ doc.host_name \in Range(doc.users)
        /\ Len(doc.users) >= 1
        /\ doc.users[1] = doc.host_name

C11_Witness ==
  \E c \in DOMAIN rooms :
    LET doc == get_room(rooms, c)
    IN  /\ last.op \in JoinOps
        /\ last.result = "Joined"
        /\ last.room_code = c
        /\ Len(doc.users) = 2
        /\ doc.users[1] = doc.host_name
        /\ doc.users[2] = last.user_name

\* The room the last results page was computed from, and what was computed.
Computed == last.op = "results_page" /\ last.result = "Results"

ComputedRoom == get_room(rooms, last.room_code)

ItemNames(room) == {room.items[i].name : i \in DOMAIN room.items}

\* A selection without the names that are not on the room's bill.
WithoutDangling(room, selected_items) ==
  LET OnBill(item_name) == item_name \in ItemNames(room)
  IN  SelectSeq(selected_items, OnBill)

\* C12: the results page of a room in which a selection names an item that is
\* not among the room's items is computed without error, the name adds 0 to the
\* user's item_total, and the item_total is the one computed with the names
\* that are not on the bill removed from the selections.
C12_DanglingNamesAddNothing ==
  (last.op = "results_page" /\ last.room_code \in DOMAIN rooms) =>
    LET room == ComputedRoom
        pruned == [room EXCEPT !.selections =
                     [user \in DOMAIN @ |-> WithoutDangling(room, @[user])]]
        l == locals(room.items, room.selections, room.ocr_data)
    IN  /\ last.result = "Results"
        /\ \A user \in DOMAIN room.selections :
             /\ \A i \in DOMAIN room.selections[user] :
                  room.selections[user][i] \notin ItemNames(room) =>
                    user_share(l.item_prices, l.item_selection_count,
                               room.selections[user][i]) = Zero
             /\ l.user_totals[user] =
                  locals(pruned.items, pruned.selections, pruned.ocr_data).user_totals[user]
             /\ \E tie \in Ties :
                  /\ last.status = calculate_bill_split(room, tie)
                  /\ last.status.user_breakdown[user].item_total =
                       calculate_bill_split(pruned, tie).user_breakdown[user].item_total

C12_Witness ==
  /\ Computed
  /\ \E user \in DOMAIN ComputedRoom.selections :
       /\ ComputedRoom.selections[user] = <<"Coffee", "Chai">>
       /\ "Chai" \notin ItemNames(ComputedRoom)
       /\ last.status.user_breakdown[user].item_total = Q(30, 1)

\* The sum of price[name] / (number of users whose selection contains name)
\* over a set of names.
RECURSIVE SumOfShares(_, _, _)
SumOfShares(names, price, selections) ==
  IF names = {} THEN Zero
  ELSE LET name == CHOOSE name \in names : TRUE
           claimers == {user \in DOMAIN selections : name \in Range(selections[user])}
       IN  add(div(price[name], Q(Cardinality(claimers), 1)),
               SumOfShares(names \ {name}, price, selections))

\* C13: for every user in selections, item_total is the sum, over the item
\* names of the user's selection that are on the bill, of the item's price
\* divided by the number of users whose selection contains the name; the users
\* list and num_people play no part.
C13_ItemTotalIsSumOfShares ==
  Computed =>
    LET room == ComputedRoom
        price == item_prices_of(room.items)
    IN  \A user \in DOMAIN room.selections :
          LET expected == SumOfShares(Range(room.selections[user]) \cap DOMAIN price,
                                      price, room.selections)
          IN  \E tie \in Ties :
                /\ last.status = calculate_bill_split(room, tie)
                /\ last.status.user_breakdown[user].item_total = round(expected, 2, tie)

\* The sum of the parsed prices of all entries of an items list.
RECURSIVE SumOfPrices(_)
SumOfPrices(items) ==
  IF items = <<>> THEN Zero
  ELSE add(parse_price(Head(items).price), SumOfPrices(Tail(items)))

\* C14: the subtotal that calculate_bill_split divides the discount and the
\* percentages by is the sum of the parsed prices of all entries of the room's
\* items list, whatever the selections are.
C14_SubtotalIsSumOfAllItems ==
  Computed =>
    LET room == ComputedRoom
        l == locals(room.items, room.selections, room.ocr_data)
    IN  /\ l.subtotal = SumOfPrices(room.items)
        /\ l.discount_percentage =
             IF less(Zero, SumOfPrices(room.items))
             THEN div(l.discount, SumOfPrices(room.items)) ELSE Zero

\* n times x, and whether two amounts are at most bound apart.
Times(n, x) == mul(Q(n, 1), x)

Within(x, y, bound) == ~less(bound, sub(x, y)) /\ ~less(bound, sub(y, x))

\* C15: with n > 0 users in selections, every one of them is charged the same
\* service_charge, cgst and sgst, namely serviceCharge/n, cgst/n and sgst/n
\* rounded to 2 places, whatever the user's item_total is; and the n service
\* charges add up to serviceCharge to within n hundredths.
C15_ChargesSplitPerHead ==
  (Computed /\ DOMAIN ComputedRoom.selections # {}) =>
    LET room == ComputedRoom
        n == Cardinality(DOMAIN room.selections)
        serviceCharge == parse_amount(room.ocr_data.serviceCharge)
        cgst == parse_amount(room.ocr_data.cgst)
        sgst == parse_amount(room.ocr_data.sgst)
        out == last.status.user_breakdown
    IN  /\ \E tie \in Ties :
             \A user \in DOMAIN room.selections :
               /\ out[user].service_charge = round(div(serviceCharge, Q(n, 1)), 2, tie)
               /\ out[user].cgst = round(div(cgst, Q(n, 1)), 2, tie)
               /\ out[user].sgst = round(div(sgst, Q(n, 1)), 2, tie)
        /\ \A user \in DOMAIN room.selections :
             Within(Times(n, out[user].service_charge), serviceCharge, Q(n, 100))

C15_Witness ==
  /\ Computed
  /\ Cardinality(DOMAIN ComputedRoom.selections) = 3
  /\ parse_amount(ComputedRoom.ocr_data.serviceCharge) = Q(10, 1)
  /\ \A user \in DOMAIN ComputedRoom.selections :
       last.status.user_breakdown[user].service_charge = Q(333, 100)
  /\ \E u, v \in DOMAIN ComputedRoom.selections :
       last.status.user_breakdown[u].item_total # last.status.user_breakdown[v].item_total

\* C16: when the users' item totals add up to the subtotal and the subtotal is
\* positive, the users' discounts, each item_total * discount / subtotal, add
\* up to the bill's discount: exactly before rounding, and to within one
\* hundredth per user in the returned breakdown.
C16_DiscountsSumToDiscount ==
  Computed =>
    LET room == ComputedRoom
        l == locals(room.items, room.selections, room.ocr_data)
        n == Cardinality(DOMAIN room.selections)
        discount == parse_amount(room.ocr_data.discount)
        share == [user \in DOMAIN room.selections |->
                    div(mul(l.user_totals[user], discount), l.subtotal)]
        out == last.status.user_breakdown
    IN  (sum_values(l.user_totals) = l.subtotal /\ less(Zero, l.subtotal)) =>
          /\ sum_values(share) = discount
          /\ \E tie \in Ties :
               \A user \in DOMAIN room.selections :
                 out[user].discount = round(share[user], 2, tie)
          /\ Within(sum_values([user \in DOMAIN room.selections |-> out[user].discount]),
                    discount, Q(n, 100))

C16_Witness ==
  /\ Computed
  /\ Cardinality(DOMAIN ComputedRoom.selections) = 3
  /\ parse_amount(ComputedRoom.ocr_data.discount) = Q(5, 1)
  /\ sum_values([user \in DOMAIN ComputedRoom.selections |->
                   last.status.user_breakdown[user].item_total]) # Q(50, 1)
  /\ LET l == locals(ComputedRoom.items, ComputedRoom.selections, ComputedRoom.ocr_data)
     IN  sum_values(l.user_totals) = l.subtotal /\ l.subtotal = Q(50, 1)
  /\ sum_values([user \in DOMAIN ComputedRoom.selections |->
                   last.status.user_breakdown[user].discount]) = Q(501, 100)

\* C17: for every user in selections, final_amount is item_total +
\* serviceCharge/n + cgst/n + sgst/n - discount of the user, and grand_total is
\* the sum of the final amounts: exactly before rounding, each returned amount
\* being the exact one rounded to 2 places, so that the returned fields agree
\* to within the roundings made.
C17_FinalAmountAndGrandTotal ==
  Computed =>
    LET room == ComputedRoom
        l == locals(room.items, room.selections, room.ocr_data)
        users == DOMAIN room.selections
        n == Cardinality(users)
        charges == add(add(parse_amount(room.ocr_data.serviceCharge),
                           parse_amount(room.ocr_data.cgst)),
                       parse_amount(room.ocr_data.sgst))
        expected == [user \in users |->
                       sub(add(l.user_totals[user], div(charges, Q(n, 1))),
                           l.user_discount[user])]
        out == last.status.user_breakdown
    IN  /\ \A user \in users : l.final_amount[user] = expected[user]
        /\ l.grand_total = sum_values(expected)
        /\ \E tie \in Ties :
             /\ \A user \in users : out[user].final_amount = round(expected[user], 2, tie)
             /\ last.status.totals.grand_total = round(sum_values(expected), 2, tie)
        /\ \A user \in users :
             Within(out[user].final_amount,
                    sub(add(add(add(out[user].item_total, out[user].service_charge),
                                out[user].cgst), out[user].sgst), out[user].discount),
                    Q(3, 100))
        /\ Within(last.status.totals.grand_total,
                  sum_values([user \in users |-> out[user].final_amount]), Q(n, 100))

C17_Witness ==
  /\ Computed
  /\ DOMAIN ComputedRoom.selections = {"Ann"}
  /\ locals(ComputedRoom.items, ComputedRoom.selections, ComputedRoom.ocr_data).subtotal = Q(100, 1)
  /\ last.status.user_breakdown["Ann"].item_total = Q(100, 1)
  /\ last.status.user_breakdown["Ann"].discount = Q(10, 1)
  /\ last.status.user_breakdown["Ann"].final_amount = Q(90, 1)
  /\ last.status.totals.grand_total = Q(90, 1)

\* C18: the results page of a room with no selections, whatever its items,
\* charges and users, is computed without error and has an empty user
\* breakdown and a grand_total of 0.
C18_NoSelectionsNoCharges ==
  (last.op = "results_page" /\ last.room_code \in DOMAIN rooms
     /\ DOMAIN ComputedRoom.selections = {}) =>
    /\ last.result = "Results"
    /\ DOMAIN last.status.user_breakdown = {}
    /\ last.status.totals.grand_total = Zero

C18_Witness ==
  /\ Computed
  /\ DOMAIN ComputedRoom.selections = {}
  /\ Len(ComputedRoom.users) >= 1
  /\ Len(ComputedRoom.items) = 2
  /\ parse_amount(ComputedRoom.ocr_data.serviceCharge) = Q(10, 1)
  /\ last.status.totals.service_charge = Q(10, 1)
  /\ last.status.totals.grand_total = Zero

\* Rooms with the items, charges and selections of a room and other users,
\* submitted users and expected number of people.
Variants(room) ==
  { [room EXCEPT !.users = <<"Bob", "bob", "Ann">>],
    [room EXCEPT !.submitted_users = {}],
    [room EXCEPT !.num_people = MaxPeople + 1],
    [room EXCEPT !.users = <<room.host_name>>,
                 !.submitted_users = {"Ann", "Bob", "bob"},
                 !.num_people = 0] }

\* C19: computing the results page writes nothing, and the bill split depends
\* only on the room's items, charges and selections: every room that differs
\* from the computed one only in users, submitted_users or num_people gets the
\* same bill split.
C19_ComputePureAndUngated ==
  [][ (last'.op = "results_page" /\ last'.room_code \in DOMAIN rooms) =>
        /\ rooms' = rooms
        /\ \E tie \in Ties :
             /\ last'.status = calculate_bill_split(Before, tie)
             /\ \A room \in Variants(Before) :
                  calculate_bill_split(room, tie) = last'.status ]_vars

C19_Witness ==
  /\ Computed
  /\ ComputedRoom.users = <<"Ann">>
  /\ ComputedRoom.num_people = 2
  /\ ComputedRoom.submitted_users = {"Bob", "bob"}
  /\ DOMAIN last.status.user_breakdown = {"Bob", "bob"}
  /\ last.status.user_breakdown["Bob"].item_total = Q(25, 1)
  /\ last.status.user_breakdown["bob"].item_total = Q(25, 1)

\* C20: while one POST /create is served, and when it has been served,
\* ocrBillMaker.getText has been called at most once for it, whichever way
\* process_uploaded_file went and whether or not the first call raised.
C20_ExtractorCalledAtMostOnce == upload.calls <= 1

\* C21: a POST /create whose extractor failed, by raising or by returning the
\* dict of an unparsable response, is answered as an error and writes no room.
C21_ExtractorFailureCreatesNoRoom ==
  [][ (upload.pc = "except"
         \/ (upload.pc = "room_data" /\ "error" \in DOMAIN upload.ocr_result)) =>
        /\ rooms' = rooms
        /\ last'.op = "create_room"
        /\ last'.result = "Error" ]_vars

ChargeFields == {"subtotal", "serviceCharge", "discount", "cgst", "sgst", "total"}

\* What edit_items leaves alone, and the second application of the same form.
EditFrame(form) ==
  /\ After.users = Before.users
  /\ After.selections = Before.selections
  /\ After.submitted_users = Before.submitted_users
  /\ After.host_name = Before.host_name
  /\ After.num_people = Before.num_people
  /\ edit_items_post(After, form).room = After

EditAbsent ==
  /\ last'.result = "NotFound"
  /\ rooms' = rooms

\* C22 as amended: edit_items on an existing room replaces items by the
\* submitted (name, price) pairs with the names trimmed, and every charge field
\* by the submitted value trimmed, or by "N/A" when that is blank; it leaves
\* users, selections, submitted_users, host_name and num_people as they were;
\* the same edit applied again gives the same room; on an absent room it
\* answers NotFound and the store is unchanged.
C22_EditItemsNormalisedFrame ==
  [][ last'.op = "edit_items" =>
        IF last'.room_code \notin DOMAIN rooms THEN EditAbsent
        ELSE /\ last'.result = "Updated"
             /\ \E form \in EditForms :
                  /\ Len(After.items) = Len(form.item_name)
                  /\ \A i \in DOMAIN After.items :
                       /\ After.items[i].name = strip(form.item_name[i])
                       /\ After.items[i].price = form.item_price[i]
                  /\ \A field \in ChargeFields :
                       After.ocr_data[field] =
                         IF strip(form[field]) = "" THEN "N/A" ELSE strip(form[field])
                  /\ EditFrame(form) ]_vars

\* C22 as stated: the stored items and charge fields are the submitted values.
C22_EditItemsSubmittedValues ==
  [][ last'.op = "edit_items" =>
        IF last'.room_code \notin DOMAIN rooms THEN EditAbsent
        ELSE /\ last'.result = "Updated"
             /\ \E form \in EditForms :
                  /\ Len(After.items) = Len(form.item_name)
                  /\ \A i \in DOMAIN After.items :
                       /\ After.items[i].name = form.item_name[i]
                       /\ After.items[i].price = form.item_price[i]
                  /\ \A field \in ChargeFields : After.ocr_data[field] = form[field]
                  /\ EditFrame(form) ]_vars

C22_Witness ==
  \E c \in DOMAIN rooms :
    LET doc == get_room(rooms, c)
    IN  /\ last.op = "edit_items"
        /\ last.room_code = c
        /\ last.result = "Updated"
        /\ Len(doc.users) = 2
        /\ doc.submitted_users # {}
        /\ \E user \in DOMAIN doc.selections : doc.selections[user] = <<"Tea", "Coffee">>
        /\ doc.items = <<[name |-> "Tea", price |-> "25"]>>
        /\ doc.ocr_data.serviceCharge = "N/A"
        /\ doc.ocr_data.discount = "5"

\* The request whose save_room a step of SpecRace is, when the step is one.
IsWrite == reqs'.begun = reqs.begun /\ reqs'.reading # reqs.reading

Writer == CHOOSE req \in reqs.reading : req \notin reqs'.reading

\* C23: the write of a select_items request stores the document the request
\* read, with the request's own selection added.  So when another user's
\* select_items was answered Submitted between the read and the write, the
\* request is answered Submitted too and the stored room has the selections and
\* submitted_users entry of the writer and no longer those of the other user.
C23_LastWriterWins ==
  [][ (IsWrite /\ Writer.op = "select_items") =>
        /\ last'.result = "Submitted"
        /\ After = Writer.outcome.room
        /\ \A other \in Names \ {Writer.user_name} :
             (/\ Written("select_items", other, "Submitted") \in reqs.written
              /\ other \notin Writer.outcome.room.submitted_users) =>
               /\ Writer.user_name \in After.submitted_users
               /\ Writer.user_name \in DOMAIN After.selections
               /\ other \notin After.submitted_users
               /\ other \notin DOMAIN After.selections ]_vars

C23_Witness ==
  \E room_code \in DOMAIN rooms :
    LET doc == get_room(rooms, room_code)
    IN  /\ reqs.begun = 2
        /\ reqs.reading = {}
        /\ reqs.written = {Written("select_items", "Ann", "Submitted"),
                           Written("select_items", "Bob", "Submitted")}
        /\ last = Served("select_items", room_code, "Bob", "Submitted", NoStatus)
        /\ doc.submitted_users = {"Bob"}
        /\ DOMAIN doc.selections = {"Bob"}

\* C24: however join and join_room requests interleave their reads and writes
\* (no other request having written the room), the stored users list has no
\* duplicate name and is no longer than num_people, and every request that was
\* answered Joined has its name in it.
C24_RacingJoinsKeepEveryJoiner ==
  (\A w \in reqs.written : w.op \in JoinOps) =>
    \A room_code \in DOMAIN rooms :
      LET doc == get_room(rooms, room_code)
      IN  /\ NoDuplicates(doc.users)
          /\ Len(doc.users) <= doc.num_people
          /\ \A w \in reqs.written :
               w.result = "Joined" => w.user_name \in Range(doc.users)

\* C25: after any handler's save_room, get_room of the same code gives a room
\* equal to the one that was saved: submitted_users, stored as a list in some
\* order without repeats, is read back as the set of the same members, and
\* users, selections and items are the same sequences and mapping.
C25_SaveGetRoundTrip ==
  [][ IsWrite =>
        LET saved == Writer.outcome.room
            stored == rooms'[Writer.room_code]
        IN  /\ After = saved
            /\ After.submitted_users = saved.submitted_users
            /\ Range(stored.submitted_users) = saved.submitted_users
            /\ NoDuplicates(stored.submitted_users)
            /\ After.users = saved.users
            /\ After.selections = saved.selections
            /\ After.items = saved.items ]_vars

C25_Witness ==
  \E room_code \in DOMAIN rooms :
    /\ reqs.reading = {}
    /\ last.op = "select_items"
    /\ last.result = "Submitted"
    /\ rooms[room_code].submitted_users = <<"Bob", "Ann">>
    /\ get_room(rooms, room_code).submitted_users = {"Ann", "Bob"}
    /\ get_room(rooms, room_code).users = <<"Ann", "Bob">>
    /\ get_room(rooms, room_code).selections["Bob"] = <<"Tea", "Coffee">>

\* C26: whenever room_status answers all_submitted = true, every member of the
\* room's users is a member of its submitted_users.
C26_AllSubmittedMeansEveryUser ==
  (last.op = "room_status" /\ last.result = "Status" /\ last.status.all_submitted) =>
    LET doc == get_room(rooms, last.room_code)
    IN  Range(doc.users) \subseteq doc.submitted_users

\* C27: the room_status that is served right after a force_complete that the
\* host was answered Completed for, on the same room, answers
\* all_submitted = true.
C27_StatusAfterForceComplete ==
  [][ (/\ last.op = "force_complete"
       /\ last.result = "Completed"
       /\ last'.op = "room_status"
       /\ last'.room_code = last.room_code) =>
        /\ last'.result = "Status"
        /\ last'.status.all_submitted ]_vars

\* The entries of an items list whose name is in somebody's selection.
ClaimedItems(room) ==
  LET Claimed(item) ==
        \E user \in DOMAIN room.selections : item.name \in Range(room.selections[user])
  IN  SelectSeq(room.items, Claimed)

\* C28: on every results page the item totals of the users in selections add
\* up to the sum of the prices of the items that somebody claimed, which is at
\* most the sum of the prices of all items, and the percentages add up to at
\* most 100 (to within the rounding of one decimal per user).
C28_CostConservation ==
  Computed =>
    LET room == ComputedRoom
        l == locals(room.items, room.selections, room.ocr_data)
        n == Cardinality(DOMAIN room.selections)
        out == last.status.user_breakdown
    IN  /\ sum_values(l.user_totals) = SumOfPrices(ClaimedItems(room))
        /\ ~less(SumOfPrices(room.items), sum_values(l.user_totals))
        /\ ~less(add(Q(100, 1), Q(n, 10)),
                 sum_values([user \in DOMAIN room.selections |-> out[user].percentage]))

====
